---- MODULE Spec2Model ----
(***************************************************************************)
(* Model of the oil & gas ETL runner (etl/main.py): one run loads the two  *)
(* EIA extracts and the NYSDEC well registry, then writes the star schema  *)
(* of a SQLite store through one sqlite3 connection.                       *)
(*                                                                         *)
(* The store is modelled twice: db is what is durable (committed), conn is *)
(* what the run's connection sees (committed plus the open transaction).   *)
(***************************************************************************)
EXTENDS Integers, Sequences, FiniteSets, TLC

VARIABLES
    db,           \* committed content of the SQLite file
    conn,         \* content as seen through the run's connection
    inTxn,        \* sqlite3 Connection.in_transaction
    pc,           \* position of main()
    runs,         \* number of runs started so far
    clock,        \* wall clock, in seconds (datetime.now())
    args,         \* parsed command line: [apply_schema]
    files,        \* the three raw input files of the run
    eia_df,       \* result of load_eia_pair
    wells_df,     \* result of load_nysdec
    load_ts,      \* the run's load timestamp
    warned,       \* names printed by the [WARN] line of the run
    prodParquet,  \* what the run wrote to production_monthly.parquet
    wellsParquet, \* what the run wrote to wells.parquet
    wellsCsv,     \* what the run wrote to wells_by_county.csv
    log,          \* the run's store events, in order
    outcome,      \* "running", "ok" or the exception that ended the run
    dbAtStart,    \* committed content when the run started
    rerun,        \* the run repeats the previous, completed run's inputs
    prevTs,       \* load timestamp of the previous run (for a rerun)
    fltSeries,    \* _filter_states: the series of entity names given
    fltInclude,   \* _filter_states: include_states given
    fltKept       \* _filter_states: index of the series returned

runVars == <<db, conn, inTxn, pc, runs, clock, args, files, eia_df, wells_df,
             load_ts, warned, prodParquet, wellsParquet, wellsCsv, log,
             outcome, dbAtStart, rerun, prevTs>>
fltVars == <<fltSeries, fltInclude, fltKept>>
vars == <<runVars, fltVars>>

-----------------------------------------------------------------------------
(* Bounds of the model *)

MaxRuns == 2

-----------------------------------------------------------------------------
(* Null values: a nullable number, date or key is NULL (None, NaN, SQL     *)
(* NULL) or Some(v); a missing cell of a string column is NA.             *)

NULL == <<>>
Some(v) == <<v>>
NA == "<NA>"

RECURSIVE SeqToSet(_)
SeqToSet(s) == IF s = <<>> THEN {} ELSE {Head(s)} \cup SeqToSet(Tail(s))

RECURSIVE DropDuplicates(_)
\* pandas drop_duplicates: first occurrences, in order
DropDuplicates(s) ==
    IF s = <<>> THEN <<>>
    ELSE LET init == DropDuplicates(SubSeq(s, 1, Len(s) - 1))
             x    == s[Len(s)]
         IN  IF x \in SeqToSet(init) THEN init ELSE Append(init, x)

DropNa(s) == SelectSeq(s, LAMBDA x : x # NA)

RECURSIVE Flatten(_)
Flatten(ss) == IF ss = <<>> THEN <<>> ELSE Head(ss) \o Flatten(Tail(ss))

StripStr(s) ==
    CASE s = "Month " -> "Month"
      [] s = " "      -> ""
      [] s = " 31001 " -> "31001"
      [] OTHER        -> s

-----------------------------------------------------------------------------
(* transforms/common.py *)

\* A date is <<year, month, day>>.
parse_month_to_ymd_first_day(x) == <<x[1], x[2], 1>>

IsLeap(y) == (y % 4 = 0 /\ y % 100 # 0) \/ y % 400 = 0

days_in_period_month(p) ==
    LET y == p[1]
        m == p[2]
    IN  IF m = 2 THEN (IF IsLeap(y) THEN 29 ELSE 28)
        ELSE IF m \in {4, 6, 9, 11} THEN 30 ELSE 31

-----------------------------------------------------------------------------
(* loaders/eia.py *)

EXCLUDE_AGGREGATES ==
    {"U.S.", "Federal Offshore Gulf of America", "Federal Offshore Pacific",
     "Other States"}

\* include_states: [given |-> FALSE] is None, otherwise names is the iterable.
NoInclude == [given |-> FALSE, names |-> {}]

_normalize_columns(f) == [f EXCEPT !.dateCol = StripStr(f.dateCol)]

\* A wide file: dateCol is the name of its first column, Month the values of
\* that column, cols the other headers (each a sequence of words) and
\* cells[j][i] the value of column j in row i. melt is column-major.
_melt_state_columns(f) ==
    Flatten([j \in 1..Len(f.cols) |->
        [i \in 1..Len(f.Month) |->
            [Month |-> f.Month[i], state_col |-> f.cols[j],
             value |-> f.cells[j][i]]]])

RECURSIVE CutAt(_, _)
\* the words of h before the first word that is the metric keyword kw
CutAt(h, kw) ==
    IF h = <<>> \/ Head(h) = kw THEN <<>>
    ELSE <<Head(h)>> \o CutAt(Tail(h), kw)

\* Entity names are one word in this model; an empty cut is the empty name.
_extract_state_from_col(h) ==
    LET cut == CutAt(CutAt(h, "Crude Oil"), "Natural Gas")
    IN  IF cut = <<>> THEN "" ELSE cut[1]

\* as _filter_states, but an allow-list is the whole filter
_filter_states_AllowListWins(s, include_states) ==
    IF include_states.given /\ include_states.names # {}
    THEN {i \in 1..Len(s) : s[i] \in include_states.names}
    ELSE {i \in 1..Len(s) : s[i] \notin EXCLUDE_AGGREGATES}

\* The index (set of positions) of the entries of series s that are kept.
_filter_states(s, include_states) ==
    LET truthy == include_states.given /\ include_states.names # {}
        step1  == IF truthy
                  THEN {i \in 1..Len(s) : s[i] \in include_states.names}
                  ELSE 1..Len(s)
    IN  {i \in step1 : s[i] \notin EXCLUDE_AGGREGATES}

daily_to_monthly(period, rate) ==
    IF rate = NULL THEN NULL
    ELSE Some(rate[1] * 1000 * days_in_period_month(period))

\* alphabetical rank of the entity names of the model (sort_values)
NameOrder == <<"", "Gulf of Mexico", "New York", "Texas", "U.S.">>
NameRank(n) == CHOOSE i \in 1..Len(NameOrder) : NameOrder[i] = n

DateLess(a, b) ==
    \/ a[1] < b[1]
    \/ a[1] = b[1] /\ a[2] < b[2]
    \/ a[1] = b[1] /\ a[2] = b[2] /\ a[3] < b[3]

RowLess(a, b) ==
    \/ NameRank(a.state_name) < NameRank(b.state_name)
    \/ a.state_name = b.state_name /\ DateLess(a.period_month, b.period_month)

RECURSIVE InsertSorted(_, _)
InsertSorted(s, r) ==
    IF s = <<>> THEN <<r>>
    ELSE IF RowLess(r, Head(s)) THEN <<r>> \o s
    ELSE <<Head(s)>> \o InsertSorted(Tail(s), r)

RECURSIVE SortRows(_)
\* stable sort by (state_name, period_month)
SortRows(s) ==
    IF s = <<>> THEN <<>>
    ELSE InsertSorted(SortRows(SubSeq(s, 1, Len(s) - 1)), s[Len(s)])

\* load_crude_oil / load_natural_gas up to the name of the measure: rows
\* [period_month, state_name, value]; "SchemaError" without a Month column.
load_measure(file, include_states) ==
    LET f     == _normalize_columns(file)
        long  == _melt_state_columns(f)
        names == [i \in 1..Len(long) |-> _extract_state_from_col(long[i].state_col)]
        mask  == _filter_states(names, include_states)
        kept  == SelectSeq([i \in 1..Len(long) |->
                              [idx |-> i, Month |-> long[i].Month,
                               state_name |-> names[i], raw |-> long[i].value]],
                           LAMBDA r : r.idx \in mask)
        out   == [i \in 1..Len(kept) |->
                   LET p == parse_month_to_ymd_first_day(kept[i].Month)
                   IN  [period_month |-> p, state_name |-> kept[i].state_name,
                        value |-> daily_to_monthly(p, kept[i].raw)]]
    IN  IF f.dateCol # "Month" THEN [err |-> "SchemaError", rows |-> <<>>]
        ELSE [err |-> "", rows |-> SortRows(out)]

Key(r) == <<r.period_month, r.state_name>>
HasDuplicateKeys(s) == \E i, j \in 1..Len(s) : i < j /\ Key(s[i]) = Key(s[j])

ValueAt(s, k) ==
    IF \E i \in 1..Len(s) : Key(s[i]) = k
    THEN s[CHOOSE i \in 1..Len(s) : Key(s[i]) = k].value
    ELSE NULL

\* load_eia_pair: outer merge on (period_month, state_name), one_to_one.
load_eia_pair(oil_file, gas_file, include_states) ==
    LET oil  == load_measure(oil_file, include_states)
        gas  == load_measure(gas_file, include_states)
        keys == DropDuplicates([i \in 1..Len(oil.rows) |-> Key(oil.rows[i])]
                               \o [i \in 1..Len(gas.rows) |-> Key(gas.rows[i])])
        out  == [i \in 1..Len(keys) |->
                   [period_month |-> keys[i][1], state_name |-> keys[i][2],
                    oil_bbl |-> ValueAt(oil.rows, keys[i]),
                    gas_mcf |-> ValueAt(gas.rows, keys[i])]]
    IN  IF oil.err # "" THEN [err |-> oil.err, rows |-> <<>>]
        ELSE IF gas.err # "" THEN [err |-> gas.err, rows |-> <<>>]
        ELSE IF HasDuplicateKeys(oil.rows) \/ HasDuplicateKeys(gas.rows)
        THEN [err |-> "MergeError", rows |-> <<>>]
        ELSE [err |-> "", rows |-> SortRows(out)]

-----------------------------------------------------------------------------
(* loaders/nysdec.py *)

\* Series.astype(str): a missing cell becomes the string "nan".
astype_str(x) == IF x = NA THEN "nan" ELSE x

\* str.title() on the county names of the model
Title(s) ==
    CASE s = "nan"  -> "Nan"
      [] s = "erie" -> "Erie"
      [] OTHER      -> s

to_float_or_none(x) ==
    CASE x = NA         -> NULL
      [] StripStr(x) = "" -> NULL
      [] x = "42"       -> Some(42)
      [] x = "-75"      -> Some(-75)
      [] x = "200"      -> Some(200)
      [] OTHER          -> NULL

to_date_iso_or_none(x) ==
    CASE x = NA           -> NULL
      [] StripStr(x) = ""   -> NULL
      [] x = "05/17/2020" -> Some("2020-05-17")
      [] OTHER            -> NULL

Between(v, lo, hi) == v # NULL /\ lo <= v[1] /\ v[1] <= hi

\* One row of the result of load_nysdec from one row of the CSV.
nysdec_row(d) ==
    LET lat == to_float_or_none(d.Surface_latitude)
        lon == to_float_or_none(d.Surface_Longitude)
    IN  [source_well_id |-> StripStr(astype_str(d.API_WellNo)),
         well_name      |-> StripStr(astype_str(d.Well_Name)),
         state_code     |-> "NY",
         county_name    |-> Title(StripStr(astype_str(d.County))),
         operator_name  |-> StripStr(astype_str(d.Company_name)),
         status_desc    |-> StripStr(astype_str(d.GeneralWellStatus)),
         latitude       |-> lat,
         longitude      |-> lon,
         spud_date      |-> to_date_iso_or_none(d.Date_Spudded),
         last_updated   |-> to_date_iso_or_none(d.Dt_Mod),
         coord_valid    |-> Between(lon, -180, 180) /\ Between(lat, -90, 90)]

\* d["API_WellNo"] raises KeyError when the column is absent.
load_nysdec(file) ==
    IF ~file.hasApi THEN [err |-> "KeyError", rows |-> <<>>]
    ELSE [err |-> "", rows |-> [i \in 1..Len(file.rows) |-> nysdec_row(file.rows[i])]]

-----------------------------------------------------------------------------
(* The relational store (sql/schema.sql) *)

Tables == {"dim_state", "fact", "dim_operator", "dim_well_status",
           "dim_county", "dim_well"}

\* The rows schema.sql seeds dim_state with (two of the states).
SchemaSeed ==
    {[state_id |-> 1, state_code |-> "NY", state_name |-> "New York"],
     [state_id |-> 2, state_code |-> "TX", state_name |-> "Texas"]}

EmptyStore == [t \in Tables |-> {}]

\* The script's effect: the seed rows whose state_code is not there yet.
SchemaScript(st) ==
    [st EXCEPT !.dim_state =
        @ \cup {r \in SchemaSeed : \A x \in @ : x.state_code # r.state_code}]

Max(S) == CHOOSE x \in S : \A y \in S : y <= x
NextRowId(ids) == IF ids = {} THEN 1 ELSE Max(ids) + 1

RECURSIVE SortedSeq(_)
\* a set of integers as an ascending sequence
SortedSeq(S) ==
    IF S = {} THEN <<>>
    ELSE LET m == CHOOSE x \in S : \A y \in S : x <= y
         IN  <<m>> \o SortedSeq(S \ {m})

-----------------------------------------------------------------------------
(* pipelines/load_all.py, 1) FACT *)

\* as ResolvedRows, but a row without a match stays, with state_id 0
ResolvedRows_KeepsUnmatched(st, eia) ==
    Flatten([i \in 1..Len(eia) |->
        LET ids == SortedSeq({x.state_id : x \in
                        {x \in st.dim_state : x.state_name = eia[i].state_name}})
            all == IF ids = <<>> THEN <<0>> ELSE ids
        IN  [k \in 1..Len(all) |->
                [period_month |-> eia[i].period_month,
                 state_name   |-> eia[i].state_name,
                 oil_bbl      |-> eia[i].oil_bbl,
                 gas_mcf      |-> eia[i].gas_mcf,
                 state_id     |-> all[k]]]])

\* eia_df.merge(states, on="state_name", how="left"), then the rows with a
\* state_id: one row per matching dim_state row, in eia_df's order.
ResolvedRows(st, eia) ==
    Flatten([i \in 1..Len(eia) |->
        LET ids == SortedSeq({x.state_id : x \in
                        {x \in st.dim_state : x.state_name = eia[i].state_name}})
        IN  [k \in 1..Len(ids) |->
                [period_month |-> eia[i].period_month,
                 state_name   |-> eia[i].state_name,
                 oil_bbl      |-> eia[i].oil_bbl,
                 gas_mcf      |-> eia[i].gas_mcf,
                 state_id     |-> ids[k]]]])

\* the names of the rows without a state_id, as the [WARN] line lists them
Unmapped(st, eia) ==
    DropDuplicates(DropNa(
        [i \in 1..Len(SelectSeq(eia, LAMBDA r :
                \A x \in st.dim_state : x.state_name # r.state_name)) |->
            SelectSeq(eia, LAMBDA r :
                \A x \in st.dim_state : x.state_name # r.state_name)[i].state_name]))

ParquetRows(e) ==
    [i \in 1..Len(e) |->
        [period_month |-> e[i].period_month, state_name |-> e[i].state_name,
         oil_bbl |-> e[i].oil_bbl, gas_mcf |-> e[i].gas_mcf]]

FactRow(r, ts) ==
    [state_id |-> r.state_id, period_month |-> r.period_month,
     oil_bbl |-> r.oil_bbl, gas_mcf |-> r.gas_mcf,
     source |-> "EIA", load_ts |-> ts]

\* a plain INSERT into a table without the unique key
Upsert_Insert(fact, n) == fact \cup {n}

\* INSERT OR IGNORE: the row that is there stays as it is
Upsert_Ignore(fact, n) ==
    IF \E x \in fact : x.state_id = n.state_id /\ x.period_month = n.period_month
    THEN fact
    ELSE fact \cup {n}

\* INSERT ... ON CONFLICT(state_id, period_month) DO UPDATE SET ...
Upsert(fact, n) ==
    IF \E x \in fact : x.state_id = n.state_id /\ x.period_month = n.period_month
    THEN {IF x.state_id = n.state_id /\ x.period_month = n.period_month
          THEN [x EXCEPT !.oil_bbl = n.oil_bbl, !.gas_mcf = n.gas_mcf,
                         !.source = n.source, !.load_ts = n.load_ts]
          ELSE x : x \in fact}
    ELSE fact \cup {n}

RECURSIVE UpsertAll(_, _, _)
UpsertAll(fact, e, ts) ==
    IF e = <<>> THEN fact
    ELSE UpsertAll(Upsert(fact, FactRow(Head(e), ts)), Tail(e), ts)

-----------------------------------------------------------------------------
(* pipelines/load_all.py, 2) DIMENSIONS *)

Column(df, c) == [i \in 1..Len(df) |-> df[i][c]]
Distinct(df, c) == DropDuplicates(DropNa(Column(df, c)))
NonEmpty(names) == SelectSeq(names, LAMBDA n : n # "")

RECURSIVE InsertOperators(_, _)
\* INSERT OR IGNORE INTO dim_operator(operator_name)
InsertOperators(tbl, names) ==
    IF names = <<>> THEN tbl
    ELSE InsertOperators(
            IF \E x \in tbl : x.operator_name = Head(names) THEN tbl
            ELSE tbl \cup {[operator_id |-> NextRowId({x.operator_id : x \in tbl}),
                            operator_name |-> Head(names)]},
            Tail(names))

RECURSIVE InsertStatuses(_, _)
\* INSERT OR IGNORE INTO dim_well_status(status_desc)
InsertStatuses(tbl, names) ==
    IF names = <<>> THEN tbl
    ELSE InsertStatuses(
            IF \E x \in tbl : x.status_desc = Head(names) THEN tbl
            ELSE tbl \cup {[status_id |-> NextRowId({x.status_id : x \in tbl}),
                            status_desc |-> Head(names)]},
            Tail(names))

RECURSIVE InsertCounties(_, _, _)
\* INSERT OR IGNORE INTO dim_county(state_id, county_name)
InsertCounties(tbl, ny_id, names) ==
    IF names = <<>> THEN tbl
    ELSE InsertCounties(
            IF \E x \in tbl : x.state_id = ny_id /\ x.county_name = Head(names)
            THEN tbl
            ELSE tbl \cup {[county_id |-> NextRowId({x.county_id : x \in tbl}),
                            state_id |-> ny_id, county_name |-> Head(names)]},
            ny_id, Tail(names))

NyRows(st) == {x \in st.dim_state : x.state_code = "NY"}
\* fetchone(): the first NY row
NyId(st) == CHOOSE i \in {x.state_id : x \in NyRows(st)} :
                \A x \in NyRows(st) : i <= x.state_id

-----------------------------------------------------------------------------
(* pipelines/load_all.py, 3) FK maps and well inserts *)

\* as MapOperator, with fillna(0) for a name that is no key
MapOperator_Zero(st, n) ==
    IF \E x \in st.dim_operator : x.operator_name = n
    THEN Some((CHOOSE x \in st.dim_operator : x.operator_name = n).operator_id)
    ELSE Some(0)

\* Series.map(dict): the id of the name, NULL for a name that is no key
MapOperator(st, n) ==
    IF \E x \in st.dim_operator : x.operator_name = n
    THEN Some((CHOOSE x \in st.dim_operator : x.operator_name = n).operator_id)
    ELSE NULL

MapStatus(st, n) ==
    IF \E x \in st.dim_well_status : x.status_desc = n
    THEN Some((CHOOSE x \in st.dim_well_status : x.status_desc = n).status_id)
    ELSE NULL

MapCounty(st, ny_id, n) ==
    IF \E x \in st.dim_county : x.state_id = ny_id /\ x.county_name = n
    THEN Some((CHOOSE x \in st.dim_county :
                 x.state_id = ny_id /\ x.county_name = n).county_id)
    ELSE NULL

\* the rows of wells_df that have a natural key
HasNaturalKey(r) == r.source_well_id # NA /\ r.source_well_id # ""

\* wells: wells_df with the foreign keys attached, rows without key dropped
WellsWithKeys(st, ny_id, df) ==
    SelectSeq(
        [i \in 1..Len(df) |->
            [source_well_id |-> df[i].source_well_id,
             well_name      |-> df[i].well_name,
             state_id       |-> ny_id,
             county_id      |-> MapCounty(st, ny_id, df[i].county_name),
             operator_id    |-> MapOperator(st, df[i].operator_name),
             status_id      |-> MapStatus(st, df[i].status_desc),
             latitude       |-> df[i].latitude,
             longitude      |-> df[i].longitude,
             spud_date      |-> df[i].spud_date,
             last_updated   |-> df[i].last_updated,
             state_code     |-> df[i].state_code,
             county_name    |-> df[i].county_name,
             operator_name  |-> df[i].operator_name,
             status_desc    |-> df[i].status_desc,
             coord_valid    |-> df[i].coord_valid]],
        HasNaturalKey)

WellRow(w, id) ==
    [well_id |-> id, source_well_id |-> w.source_well_id,
     well_name |-> w.well_name, state_id |-> w.state_id,
     county_id |-> w.county_id, operator_id |-> w.operator_id,
     status_id |-> w.status_id, latitude |-> w.latitude,
     longitude |-> w.longitude, spud_date |-> w.spud_date,
     last_updated |-> w.last_updated]

\* INSERT OR REPLACE: the row that is there goes, a new one comes
InsertWell_Replace(tbl, w) ==
    {x \in tbl : x.source_well_id # w.source_well_id}
        \cup {WellRow(w, NextRowId({x.well_id : x \in tbl}))}

\* an upsert that refreshes the registry attributes of the row that is there
InsertWell_Update(tbl, w) ==
    IF \E x \in tbl : x.source_well_id = w.source_well_id
    THEN {IF x.source_well_id = w.source_well_id THEN WellRow(w, x.well_id) ELSE x
          : x \in tbl}
    ELSE tbl \cup {WellRow(w, NextRowId({x.well_id : x \in tbl}))}

\* INSERT OR IGNORE INTO dim_well ..., UNIQUE(source_well_id)
InsertWell(tbl, w) ==
    IF \E x \in tbl : x.source_well_id = w.source_well_id THEN tbl
    ELSE tbl \cup {WellRow(w, NextRowId({x.well_id : x \in tbl}))}

RECURSIVE InsertWells(_, _)
InsertWells(tbl, ws) ==
    IF ws = <<>> THEN tbl ELSE InsertWells(InsertWell(tbl, Head(ws)), Tail(ws))

\* 4) wells by county: the count of coord_valid wells per county
WellsByCounty(ws) ==
    LET valid == SelectSeq(ws, LAMBDA w : w.coord_valid /\ w.county_name # NA)
    IN  {[county_name |-> c,
          well_count |-> Cardinality({i \in 1..Len(valid) : valid[i].county_name = c})]
         : c \in {valid[i].county_name : i \in 1..Len(valid)}}

-----------------------------------------------------------------------------
(* The inputs a run may find under data/raw *)

Feb1  == <<2024, 2, 1>>
Feb15 == <<2024, 2, 15>>

OilHdr(e) == <<e, "Crude Oil", "(Thousand Barrels per Day)", "thousand barrels per day">>
GasHdr(e) == <<e, "Natural Gas", "Gross Withdrawals", "(Million Cubic Feet per Day)">>

OilFiles ==
    \* no Month column
    {[dateCol |-> "Date", Month |-> <<Feb1>>, cols |-> <<OilHdr("New York")>>,
      cells |-> <<<<Some(1)>>>>]}
    \* New York with a rate or none, and an area dim_state does not know
    \cup {[dateCol |-> "Month ", Month |-> <<Feb1>>,
           cols |-> <<OilHdr("New York"), OilHdr("Gulf of Mexico")>>,
           cells |-> <<<<v>>, <<Some(2)>>>>] : v \in {NULL, Some(1)}}
    \* two dates of the same month
    \cup {[dateCol |-> "Month", Month |-> <<Feb1, Feb15>>,
           cols |-> <<OilHdr("New York")>>, cells |-> <<<<Some(1), Some(2)>>>>]}
    \* nothing that resolves: an aggregate and an unknown area
    \cup {[dateCol |-> "Month", Month |-> <<Feb1>>,
           cols |-> <<OilHdr("U.S."), OilHdr("Gulf of Mexico")>>,
           cells |-> <<<<Some(2)>>, <<Some(1)>>>>]}
    \* an aggregate and a second state
    \cup {[dateCol |-> "Month", Month |-> <<Feb1>>,
           cols |-> <<OilHdr("U.S."), OilHdr("Texas")>>,
           cells |-> <<<<Some(2)>>, <<Some(1)>>>>]}

GasFiles ==
    {[dateCol |-> "Month", Month |-> <<>>, cols |-> <<>>, cells |-> <<>>],
     [dateCol |-> "Month", Month |-> <<Feb1>>, cols |-> <<GasHdr("New York")>>,
      cells |-> <<<<Some(3)>>>>]}

BaseWell ==
    [API_WellNo |-> " 31001 ", Well_Name |-> "Smith 1", County |-> "erie",
     Company_name |-> "Acme", GeneralWellStatus |-> "Active",
     Surface_latitude |-> "42", Surface_Longitude |-> "-75",
     Date_Spudded |-> "05/17/2020", Dt_Mod |-> NA]

\* the same well with other registry attributes and no operator
OtherWell ==
    [BaseWell EXCEPT !.API_WellNo = "31001", !.Well_Name = "Smith 2",
                     !.Company_name = " ", !.Surface_latitude = "200"]

MissingKeyWell == [BaseWell EXCEPT !.API_WellNo = NA, !.Well_Name = "Jones"]
BlankKeyWell   == [BaseWell EXCEPT !.API_WellNo = " ", !.Well_Name = "Blank"]

WellFiles ==
    {[hasApi |-> FALSE, rows |-> <<BaseWell>>]}
    \cup {[hasApi |-> TRUE, rows |-> rs] :
            rs \in {<<>>, <<BaseWell>>, <<OtherWell>>, <<BaseWell, OtherWell>>,
                    <<MissingKeyWell, BlankKeyWell>>}}

NoFiles == [oil |-> <<>>, gas |-> <<>>, wells |-> <<>>]

-----------------------------------------------------------------------------
(* main.py: one run, step by step *)

Init ==
    /\ db \in {[EmptyStore EXCEPT !.dim_state = S] :
                 S \in {SchemaSeed, {r \in SchemaSeed : r.state_code # "NY"}}}
    /\ conn = db
    /\ inTxn = FALSE
    /\ pc = "idle"
    /\ runs = 0
    /\ clock = 0
    /\ args = [apply_schema |-> FALSE]
    /\ files = NoFiles
    /\ eia_df = <<>>
    /\ wells_df = <<>>
    /\ load_ts = 0
    /\ warned = <<>>
    /\ prodParquet = <<>>
    /\ wellsParquet = <<>>
    /\ wellsCsv = {}
    /\ log = <<>>
    /\ outcome = "none"
    /\ dbAtStart = db
    /\ rerun = FALSE
    /\ prevTs = 0
    /\ fltSeries = <<>>
    /\ fltInclude = NoInclude
    /\ fltKept = {}

\* with connect(DB_PATH) as conn: a fresh connection on the committed file
Begin(a, f, again) ==
    /\ runs' = runs + 1
    /\ args' = a
    /\ files' = f
    /\ rerun' = again
    /\ prevTs' = IF again THEN load_ts ELSE 0
    /\ load_ts' = 0
    /\ prodParquet' = <<>>
    /\ wellsParquet' = <<>>
    /\ wellsCsv' = {}
    /\ conn' = db
    /\ inTxn' = FALSE
    /\ dbAtStart' = db
    /\ eia_df' = <<>>
    /\ wells_df' = <<>>
    /\ warned' = <<>>
    /\ log' = <<>>
    /\ outcome' = "running"
    /\ pc' = "schema"
    /\ UNCHANGED <<db, clock, fltVars>>

StartRun ==
    /\ pc \in {"idle", "done"}
    /\ runs < MaxRuns
    /\ \E a \in [apply_schema : BOOLEAN], o \in OilFiles, g \in GasFiles,
          w \in WellFiles :
            Begin(a, [oil |-> o, gas |-> g, wells |-> w], FALSE)

\* the same command on the same files, after a run that completed
StartRerun ==
    /\ pc = "done"
    /\ outcome = "ok"
    /\ runs < MaxRuns
    /\ Begin(args, files, TRUE)

\* db/io.py apply_schema: executescript runs in autocommit mode
ApplySchema ==
    /\ pc = "schema"
    /\ args.apply_schema
    /\ conn' = SchemaScript(conn)
    /\ db' = SchemaScript(conn)
    /\ inTxn' = FALSE
    /\ log' = log \o <<"schema", "commit">>
    /\ pc' = "eia"
    /\ UNCHANGED <<runs, clock, args, files, eia_df, wells_df, load_ts, warned,
                   prodParquet, wellsParquet, wellsCsv, outcome, dbAtStart,
                   rerun, prevTs, fltVars>>

SkipSchema ==
    /\ pc = "schema"
    /\ ~args.apply_schema
    /\ pc' = "eia"
    /\ UNCHANGED <<db, conn, inTxn, runs, clock, args, files, eia_df, wells_df,
                   load_ts, warned, prodParquet, wellsParquet, wellsCsv, log,
                   outcome, dbAtStart, rerun, prevTs, fltVars>>

LoadEia ==
    /\ pc = "eia"
    /\ LET res == load_eia_pair(files.oil, files.gas, NoInclude)
       IN  /\ eia_df' = res.rows
           /\ outcome' = IF res.err = "" THEN outcome ELSE res.err
           /\ pc' = IF res.err = "" THEN "nysdec" ELSE "exit"
    /\ UNCHANGED <<db, conn, inTxn, runs, clock, args, files, wells_df, load_ts,
                   warned, prodParquet, wellsParquet, wellsCsv, log, dbAtStart,
                   rerun, prevTs, fltVars>>

LoadNysdec ==
    /\ pc = "nysdec"
    /\ LET res == load_nysdec(files.wells)
       IN  /\ wells_df' = res.rows
           /\ outcome' = IF res.err = "" THEN outcome ELSE res.err
           /\ pc' = IF res.err = "" THEN "fact" ELSE "exit"
    /\ UNCHANGED <<db, conn, inTxn, runs, clock, args, files, eia_df, load_ts,
                   warned, prodParquet, wellsParquet, wellsCsv, log, dbAtStart,
                   rerun, prevTs, fltVars>>

\* datetime.now(): the clock has not moved back since the last reading
Now == {clock, clock + 1}

\* load_dimensions_and_fact, 1): the first n upserts run; failed tells
\* whether the next one raised
FactStep(now, n, failed) ==
    LET e == ResolvedRows(conn, eia_df)
    IN  /\ warned' = Unmapped(conn, eia_df)
        /\ clock' = now
        /\ load_ts' = now
        /\ prodParquet' = ParquetRows(e)
        /\ conn' = [conn EXCEPT !.fact = UpsertAll(@, SubSeq(e, 1, n), now)]
        /\ inTxn' = (inTxn \/ n > 0 \/ failed)
        /\ log' = IF n > 0 THEN Append(log, "write") ELSE log
        /\ outcome' = IF failed THEN "InsertError" ELSE outcome
        /\ pc' = IF failed THEN "exit" ELSE "dims"
        /\ UNCHANGED <<db, runs, args, files, eia_df, wells_df, wellsParquet,
                       wellsCsv, dbAtStart, rerun, prevTs, fltVars>>

LoadFact ==
    /\ pc = "fact"
    /\ \E now \in Now : FactStep(now, Len(ResolvedRows(conn, eia_df)), FALSE)

\* an upsert raises (sqlite3.Error) after n rows went in
FactInsertFails ==
    /\ pc = "fact"
    /\ \E now \in Now, n \in 0..(Len(ResolvedRows(conn, eia_df)) - 1) :
          FactStep(now, n, TRUE)

\* load_dimensions_and_fact, 2): operators and statuses, the NY row, counties
LoadDims ==
    /\ pc = "dims"
    /\ LET ops   == Distinct(wells_df, "operator_name")
           sts   == Distinct(wells_df, "status_desc")
           cts   == Distinct(wells_df, "county_name")
           st1   == [conn EXCEPT
                       !.dim_operator = InsertOperators(@, NonEmpty(ops)),
                       !.dim_well_status = InsertStatuses(@, NonEmpty(sts))]
           hasNy == NyRows(conn) # {}
           st2   == [st1 EXCEPT
                       !.dim_county = InsertCounties(@, NyId(conn), NonEmpty(cts))]
           wrote == \/ NonEmpty(ops) # <<>>
                    \/ NonEmpty(sts) # <<>>
                    \/ hasNy /\ NonEmpty(cts) # <<>>
       IN  /\ conn' = IF hasNy THEN st2 ELSE st1
           /\ inTxn' = (inTxn \/ ops # <<>> \/ sts # <<>> \/ (hasNy /\ cts # <<>>))
           /\ log' = IF wrote THEN Append(log, "write") ELSE log
           /\ outcome' = IF hasNy THEN outcome ELSE "RuntimeError"
           /\ pc' = IF hasNy THEN "wells" ELSE "exit"
    /\ UNCHANGED <<db, runs, clock, args, files, eia_df, wells_df, load_ts,
                   warned, prodParquet, wellsParquet, wellsCsv, dbAtStart,
                   rerun, prevTs, fltVars>>

\* load_dimensions_and_fact, 3) and 4): the first n inserts run; failed
\* tells whether the next one raised
WellStep(n, failed) ==
    LET wells == WellsWithKeys(conn, NyId(conn), wells_df)
    IN  /\ wellsParquet' = wells
        /\ conn' = [conn EXCEPT !.dim_well = InsertWells(@, SubSeq(wells, 1, n))]
        /\ inTxn' = (inTxn \/ n > 0 \/ failed)
        /\ log' = IF n > 0 THEN Append(log, "write") ELSE log
        /\ wellsCsv' = IF failed THEN wellsCsv ELSE WellsByCounty(wells)
        /\ outcome' = IF failed THEN "InsertError" ELSE outcome
        /\ pc' = IF failed THEN "exit" ELSE "commit"
        /\ UNCHANGED <<db, runs, clock, args, files, eia_df, wells_df, load_ts,
                       warned, prodParquet, dbAtStart, rerun, prevTs, fltVars>>

LoadWells ==
    /\ pc = "wells"
    /\ WellStep(Len(WellsWithKeys(conn, NyId(conn), wells_df)), FALSE)

\* an insert raises (sqlite3.Error) after n rows went in
WellInsertFails ==
    /\ pc = "wells"
    /\ \E n \in 0..(Len(WellsWithKeys(conn, NyId(conn), wells_df)) - 1) :
          WellStep(n, TRUE)

\* sqlite3 Connection.commit(): a COMMIT when a transaction is open makes
\* what the connection sees durable; otherwise nothing happens
CommitTxn(durable, seen, open) == IF open THEN seen ELSE durable

CommitLog_Always(open) == <<"commit">>
\* the COMMIT statements a commit() call issues
CommitLog(open) == IF open THEN <<"commit">> ELSE <<>>

AfterException_Commits(durable, seen, open) == CommitTxn(durable, seen, open)
\* Connection.__exit__ with an exception: rollback(), the open transaction
\* is discarded
AfterException(durable, seen, open) == durable

\* conn.commit() at the end of load_dimensions_and_fact
Commit ==
    /\ pc = "commit"
    /\ db' = CommitTxn(db, conn, inTxn)
    /\ log' = log \o CommitLog(inTxn)
    /\ inTxn' = FALSE
    /\ pc' = "exit"
    /\ UNCHANGED <<conn, runs, clock, args, files, eia_df, wells_df, load_ts,
                   warned, prodParquet, wellsParquet, wellsCsv, outcome,
                   dbAtStart, rerun, prevTs, fltVars>>

\* the with block ends without an exception: Connection.__exit__ commits
ExitCommit ==
    /\ pc = "exit"
    /\ outcome = "running"
    /\ db' = CommitTxn(db, conn, inTxn)
    /\ log' = log \o CommitLog(inTxn)
    /\ inTxn' = FALSE
    /\ outcome' = "ok"
    /\ pc' = "done"
    /\ UNCHANGED <<conn, runs, clock, args, files, eia_df, wells_df, load_ts,
                   warned, prodParquet, wellsParquet, wellsCsv, dbAtStart,
                   rerun, prevTs, fltVars>>

\* an exception leaves the with block: Connection.__exit__ rolls back
ExitRollback ==
    /\ pc = "exit"
    /\ outcome # "running"
    /\ db' = AfterException(db, conn, inTxn)
    /\ conn' = AfterException(db, conn, inTxn)
    /\ inTxn' = FALSE
    /\ pc' = "done"
    /\ UNCHANGED <<runs, clock, args, files, eia_df, wells_df, load_ts,
                   warned, prodParquet, wellsParquet, wellsCsv, log, outcome,
                   dbAtStart, rerun, prevTs, fltVars>>

Next ==
    \/ StartRun
    \/ StartRerun
    \/ ApplySchema
    \/ SkipSchema
    \/ LoadEia
    \/ LoadNysdec
    \/ LoadFact
    \/ FactInsertFails
    \/ LoadDims
    \/ LoadWells
    \/ WellInsertFails
    \/ Commit
    \/ ExitCommit
    \/ ExitRollback

Spec == Init /\ [][Next]_vars

-----------------------------------------------------------------------------
(* _filter_states on its own: any series of names, any include_states *)

MaxSeries == 2

FilterNames == {"New York", "Texas", "U.S."}

SeriesOf(n) == UNION {[1..k -> FilterNames] : k \in 0..n}

InitFilter ==
    /\ db = EmptyStore
    /\ conn = db
    /\ inTxn = FALSE
    /\ pc = "filter"
    /\ runs = 0
    /\ clock = 0
    /\ args = [apply_schema |-> FALSE]
    /\ files = NoFiles
    /\ eia_df = <<>>
    /\ wells_df = <<>>
    /\ load_ts = 0
    /\ warned = <<>>
    /\ prodParquet = <<>>
    /\ wellsParquet = <<>>
    /\ wellsCsv = {}
    /\ log = <<>>
    /\ outcome = "none"
    /\ dbAtStart = db
    /\ rerun = FALSE
    /\ prevTs = 0
    /\ fltSeries \in SeriesOf(MaxSeries)
    /\ fltInclude \in {NoInclude} \cup
                      {[given |-> TRUE, names |-> S] : S \in SUBSET FilterNames}
    /\ fltKept = {}

ApplyFilter ==
    /\ pc = "filter"
    /\ fltKept' = _filter_states(fltSeries, fltInclude)
    /\ pc' = "filtered"
    /\ UNCHANGED <<db, conn, inTxn, runs, clock, args, files, eia_df, wells_df,
                   load_ts, warned, prodParquet, wellsParquet, wellsCsv, log,
                   outcome, dbAtStart, rerun, prevTs, fltSeries, fltInclude>>

NextFilter == ApplyFilter

SpecFilter == InitFilter /\ [][NextFilter]_vars

-----------------------------------------------------------------------------
(* Properties *)

Completed == pc = "done" /\ outcome = "ok"
Aborted   == pc = "done" /\ outcome \notin {"none", "ok"}

SameKey(a, b) == a.state_id = b.state_id /\ a.period_month = b.period_month
SameButLoadTs(a, b) ==
    /\ SameKey(a, b)
    /\ a.oil_bbl = b.oil_bbl
    /\ a.gas_mcf = b.gas_mcf
    /\ a.source = b.source

Count(sq, x) == Cardinality({i \in 1..Len(sq) : sq[i] = x})

\* C1 as stated: after a rerun of a completed run on the same inputs every
\* row of the fact table and of dim_well is what it was after the first
\* run, load_ts included.
C1_RerunIdenticalWithLoadTs ==
    (Completed /\ rerun) =>
        /\ db.fact = dbAtStart.fact
        /\ db.dim_well = dbAtStart.dim_well

\* C1, amended: after a rerun of a completed run on the same inputs dim_well
\* is identical in every column, and the fact table has the same rows
\* identical in every column but load_ts; load_ts of a row is what it was or
\* the timestamp of the rerun, which is not earlier.
C1_RerunIdenticalButLoadTs ==
    (Completed /\ rerun) =>
        /\ db.dim_well = dbAtStart.dim_well
        /\ Cardinality(db.fact) = Cardinality(dbAtStart.fact)
        /\ \A r \in db.fact : \E o \in dbAtStart.fact :
              /\ SameButLoadTs(r, o)
              /\ r.load_ts = o.load_ts \/ r.load_ts = load_ts
              /\ r.load_ts >= o.load_ts
        /\ \A o \in dbAtStart.fact : \E r \in db.fact : SameButLoadTs(r, o)

C1_Witness ==
    /\ Completed
    /\ rerun
    /\ dbAtStart.dim_well # {}
    /\ \E r \in db.fact : r.load_ts # prevTs /\ r \notin dbAtStart.fact

C3_FactKeyUnique ==
    \A st \in {db, conn} : \A a, b \in st.fact : SameKey(a, b) => a = b

C3_Witness ==
    /\ Completed
    /\ \E o \in dbAtStart.fact : \E r \in db.fact :
          SameKey(r, o) /\ r.oil_bbl # o.oil_bbl

\* C4: after a run that completed, for every production row and every
\* dim_state row of its name, the fact table holds for that (state_id,
\* period_month) exactly one row, and it carries the row's oil and gas
\* measures (null included), the source tag and the run's load timestamp.
C4_UpsertHoldsLatest ==
    Completed =>
        \A i \in 1..Len(eia_df) : \A s \in db.dim_state :
            s.state_name = eia_df[i].state_name =>
                /\ [state_id |-> s.state_id,
                    period_month |-> eia_df[i].period_month,
                    oil_bbl |-> eia_df[i].oil_bbl,
                    gas_mcf |-> eia_df[i].gas_mcf,
                    source |-> "EIA", load_ts |-> load_ts] \in db.fact
                /\ Cardinality({r \in db.fact :
                        /\ r.state_id = s.state_id
                        /\ r.period_month = eia_df[i].period_month}) = 1

C4_Witness ==
    /\ Completed
    /\ \E o \in dbAtStart.fact : \E r \in db.fact :
          /\ SameKey(r, o)
          /\ o.oil_bbl # NULL
          /\ r.oil_bbl = NULL
          /\ r.load_ts # o.load_ts
    /\ \E r \in db.fact : \A o \in dbAtStart.fact : ~SameKey(r, o)

\* C5: dim_well never holds two rows with the same source_well_id, and
\* every row that was in dim_well when a run started is seen unchanged by
\* the run and is there unchanged when the run has ended.
C5_WellRowsUniqueAndKept ==
    /\ \A st \in {db, conn} : \A a, b \in st.dim_well :
          a.source_well_id = b.source_well_id => a = b
    /\ dbAtStart.dim_well \subseteq conn.dim_well
    /\ dbAtStart.dim_well \subseteq db.dim_well

C5_Witness ==
    /\ Completed
    /\ \E i \in 1..Len(wells_df) : \E w \in dbAtStart.dim_well :
          /\ w.source_well_id = wells_df[i].source_well_id
          /\ w.well_name # wells_df[i].well_name
          /\ w.latitude # wells_df[i].latitude
          /\ w \in db.dim_well

FkValid(st, w) ==
    /\ w.operator_id = NULL \/
          \E x \in st.dim_operator : x.operator_id = w.operator_id[1]
    /\ w.status_id = NULL \/
          \E x \in st.dim_well_status : x.status_id = w.status_id[1]
    /\ w.county_id = NULL \/
          \E x \in st.dim_county : x.county_id = w.county_id[1]

FirstWith(df, id) == df[CHOOSE i \in 1..Len(df) :
                           /\ df[i].source_well_id = id
                           /\ \A j \in 1..(i - 1) : df[j].source_well_id # id]

\* C6: every foreign key of every dim_well row is null or the id of a row of
\* its dimension; after a run that completed every input well with a natural
\* key is in dim_well, and a well the run inserted whose operator, status or
\* county name is in no dimension row has a null key there.
C6_ForeignKeysValidOrNull ==
    /\ \A st \in {db, conn} : \A w \in st.dim_well : FkValid(st, w)
    /\ Completed =>
          /\ \A i \in 1..Len(wells_df) :
                HasNaturalKey(wells_df[i]) =>
                    \E w \in db.dim_well :
                        w.source_well_id = wells_df[i].source_well_id
          /\ \A w \in db.dim_well \ dbAtStart.dim_well :
                LET r == FirstWith(wells_df, w.source_well_id)
                IN  /\ (\A x \in db.dim_operator :
                            x.operator_name # r.operator_name)
                        => w.operator_id = NULL
                    /\ (\A x \in db.dim_well_status :
                            x.status_desc # r.status_desc)
                        => w.status_id = NULL
                    /\ (\A x \in db.dim_county :
                            x.county_name # r.county_name)
                        => w.county_id = NULL

C6_Witness ==
    /\ Completed
    /\ \E w \in db.dim_well \ dbAtStart.dim_well :
          /\ w.operator_id = NULL
          /\ w.status_id # NULL
          /\ w.county_id # NULL
          /\ FirstWith(wells_df, w.source_well_id).operator_name = ""

RawRows == files.wells.rows
RawHasKey(d) == d.API_WellNo # NA /\ StripStr(d.API_WellNo) # ""
NumWithKey == Cardinality({i \in 1..Len(RawRows) : RawHasKey(RawRows[i])})

\* C7: after a run that completed against an empty dim_well, the rows the
\* run inserts are the input well rows whose natural key is neither missing
\* nor empty, and dim_well holds as many rows as the input has such rows.
C7_InsertedEqualsKeyedInputs ==
    (Completed /\ dbAtStart.dim_well = {}) =>
        /\ Len(wellsParquet) = NumWithKey
        /\ \A w \in db.dim_well :
              \E i \in 1..Len(RawRows) :
                  /\ RawHasKey(RawRows[i])
                  /\ w.source_well_id = StripStr(RawRows[i].API_WellNo)
        /\ Cardinality(db.dim_well) = NumWithKey

KeptAsClaimed(series, include_states) ==
    IF include_states.given
    THEN {i \in 1..Len(series) : series[i] \in include_states.names}
    ELSE {i \in 1..Len(series) : series[i] \notin EXCLUDE_AGGREGATES}

\* C8 as stated: the filter keeps a row iff its name is in the allow-list
\* when one is given, and otherwise iff its name is no aggregate.
C8_AllowListOverridesAggregates ==
    pc = "filtered" => fltKept = KeptAsClaimed(fltSeries, fltInclude)

\* C8, amended: the filter keeps a row iff its name is no aggregate and,
\* when a non-empty allow-list is given, is in the allow-list; an aggregate
\* is dropped even when the allow-list names it, and an empty allow-list
\* counts as none.
C8_AggregatesAlwaysDropped ==
    pc = "filtered" =>
        fltKept = {i \in 1..Len(fltSeries) :
                     /\ fltSeries[i] \notin EXCLUDE_AGGREGATES
                     /\ (fltInclude.given /\ fltInclude.names # {})
                           => fltSeries[i] \in fltInclude.names}

C8_Witness ==
    /\ pc = "filtered"
    /\ fltInclude.given
    /\ "U.S." \in fltInclude.names
    /\ \E i, j \in 1..Len(fltSeries) :
          /\ fltSeries[i] = "U.S."
          /\ i \notin fltKept
          /\ fltSeries[j] = "New York"
          /\ j \in fltKept

LastIs(sq, x) == sq # <<>> /\ sq[Len(sq)] = x

LoadLog ==
    IF args.apply_schema /\ Len(log) >= 2
    THEN SubSeq(log, 3, Len(log)) ELSE log

FactStepDone ==
    \/ pc \in {"dims", "wells", "commit"}
    \/ pc = "exit" /\ outcome = "running"
    \/ Completed

Matches(i) == {s \in conn.dim_state : s.state_name = eia_df[i].state_name}

\* C10: a production row whose state_name is in no dim_state row raises
\* nothing: the exceptions of a run are those of the loaders (raised before
\* any name is resolved), a failed insert, and the RuntimeError of a
\* dim_state without NY row. Once the fact step is through, the row's name
\* is in the warning and the row is neither in the fact table nor in the
\* production snapshot, while every row whose state_name matches is in both.
C10_UnresolvedDroppedWithWarning ==
    /\ outcome \in {"none", "running", "ok", "SchemaError", "MergeError",
                    "KeyError", "InsertError", "RuntimeError"}
    /\ outcome \in {"SchemaError", "MergeError", "KeyError"} => warned = <<>>
    /\ outcome = "RuntimeError" => NyRows(conn) = {}
    /\ FactStepDone =>
          /\ \A i \in 1..Len(eia_df) :
                IF Matches(i) = {}
                THEN /\ Count(warned, eia_df[i].state_name) = 1
                     /\ \A j \in 1..Len(prodParquet) :
                           prodParquet[j].state_name # eia_df[i].state_name
                ELSE /\ Count(warned, eia_df[i].state_name) = 0
                     /\ Count(prodParquet, eia_df[i]) = Cardinality(Matches(i))
                     /\ \A s \in Matches(i) : \E f \in conn.fact :
                           /\ f.state_id = s.state_id
                           /\ f.period_month = eia_df[i].period_month
                           /\ f.oil_bbl = eia_df[i].oil_bbl
                           /\ f.gas_mcf = eia_df[i].gas_mcf
                           /\ f.load_ts = load_ts
          /\ \A f \in conn.fact \ dbAtStart.fact :
                \E i \in 1..Len(eia_df) : \E s \in Matches(i) :
                    /\ f.state_id = s.state_id
                    /\ f.period_month = eia_df[i].period_month

C10_Witness ==
    /\ Completed
    /\ warned = <<"Gulf of Mexico">>
    /\ \E f \in db.fact \ dbAtStart.fact : f.state_id = 1
    /\ Len(prodParquet) = 1

====
